---- MODULE Spec2Model ----
(***************************************************************************)
(* Model of bigsi_rs (src/lib.rs): a BIGSI-like bit-sliced index.  Two     *)
(* indexes, A and B, are built with Bigsi::new and driven by insert, slim, *)
(* merge, save and read.  A panic is fatal: after it no operation runs.    *)
(* panic names the operation that panicked, saved is the index as it was   *)
(* when the file was written, built the arguments each index was made with.*)
(* A bit vector (bv::BitVec) is a sequence of BOOLEAN; bit a of the code   *)
(* is element a + 1 of the sequence.                                       *)
(***************************************************************************)
EXTENDS Integers, Sequences, FiniteSets, TLC

\* ---- bounds of the model ----
MaxM == 2
MaxN == 2
MaxEta == 2
NumValues == 2
HashSpace == 2
MaxAcc == 3

\* width in bits of one storage block of a BitVec (usize)
BlockBits == 64

Names == {"A", "B"}
Values == 1..NumValues
Seeds == 0..(MaxEta - 1)

VARIABLES idx, file, hash64, panic, saved, built

vars == <<idx, file, hash64, panic, saved, built>>

Other(s) == IF s = "A" THEN "B" ELSE "A"

Min(x, y) == IF x <= y THEN x ELSE y

\* ---- bit vectors ----
NewFill(bit, n) == [k \in 1..n |-> bit]

NewBitVec == << >>

IsEmpty(row) == Len(row) = 0

BitAnd(x, y) == [k \in 1..Min(Len(x), Len(y)) |-> x[k] /\ y[k]]

BitConcat(x, y) == x \o y

SetBit(row, a) == [row EXCEPT ![a + 1] = TRUE]

\* ---- Bigsi::new ----
New(m, n, eta) ==
    [bigsi |-> [k \in 1..m |-> NewFill(FALSE, n)],
     num_hashes |-> eta,
     accessions |-> n]

\* bit_index of insert/get/get_bv: hash64_with_seed(value, i) % bigsi.len()
BitIndex(b, v, i) == hash64[<<v, i>>] % Len(b.bigsi)

\* ---- Bigsi::insert: the loop from hash i on; set panics out of bounds ----
\* a variant of the insert loop that stops after the first hash
InsertLoopFirstHash(b, a, v, i) ==
    IF b.num_hashes = 0
    THEN [b |-> b, ok |-> TRUE]
    ELSE LET p == BitIndex(b, v, 0) + 1
         IN IF a >= Len(b.bigsi[p])
            THEN [b |-> b, ok |-> FALSE]
            ELSE [b |-> [b EXCEPT !.bigsi[p] = SetBit(@, a)], ok |-> TRUE]

RECURSIVE InsertLoop(_, _, _, _)
InsertLoop(b, a, v, i) ==
    IF i >= b.num_hashes
    THEN [b |-> b, ok |-> TRUE]
    ELSE LET p == BitIndex(b, v, i) + 1
         IN IF a >= Len(b.bigsi[p])
            THEN [b |-> b, ok |-> FALSE]
            ELSE InsertLoop([b EXCEPT !.bigsi[p] = SetBit(@, a)], a, v, i + 1)

\* ---- Bigsi::slim ----
\* a variant of the slim test that drops a row as soon as one bit is false
SlimRowAnyFalse(row, n) ==
    IF (Len(row) = n) /\ (\E k \in 1..Len(row) : ~row[k]) THEN NewBitVec ELSE row

SlimRow(row, n) == IF row = NewFill(FALSE, n) THEN NewBitVec ELSE row

SlimIndex(b) ==
    [b EXCEPT !.bigsi = [k \in 1..Len(b.bigsi) |-> SlimRow(b.bigsi[k], b.accessions)]]

\* ---- Bigsi::get ----
\* a variant of the query loop that keeps the last row instead of the AND
RECURSIVE GetLoopLastRow(_, _, _, _)
GetLoopLastRow(b, v, i, final_vec) ==
    IF i >= b.num_hashes
    THEN [early |-> FALSE, vec |-> final_vec]
    ELSE LET row == b.bigsi[BitIndex(b, v, i) + 1]
         IN IF IsEmpty(row)
            THEN [early |-> TRUE, vec |-> row]
            ELSE GetLoopLastRow(b, v, i + 1, row)

RECURSIVE GetLoop(_, _, _, _)
GetLoop(b, v, i, final_vec) ==
    IF i >= b.num_hashes
    THEN [early |-> FALSE, vec |-> final_vec]
    ELSE LET row == b.bigsi[BitIndex(b, v, i) + 1]
         IN IF IsEmpty(row)
            THEN [early |-> TRUE, vec |-> row]
            ELSE GetLoop(b, v, i + 1, BitAnd(final_vec, row))

RECURSIVE HitsLoop(_, _, _, _)
HitsLoop(final_vec, n, item, hits) ==
    IF item >= n
    THEN [panic |-> FALSE, hits |-> hits]
    ELSE IF item >= Len(final_vec)
         THEN [panic |-> TRUE, hits |-> hits]
         ELSE HitsLoop(final_vec, n, item + 1,
                       IF final_vec[item + 1] THEN Append(hits, item) ELSE hits)

Get(b, v) ==
    LET r == GetLoop(b, v, 0, NewFill(TRUE, b.accessions))
    IN IF r.early
       THEN [panic |-> FALSE, hits |-> << >>]
       ELSE HitsLoop(r.vec, b.accessions, 0, << >>)

\* ---- Bigsi::get_bv ----
RECURSIVE GetBvLoop(_, _, _, _)
GetBvLoop(b, v, i, final_vec) ==
    IF i >= b.num_hashes
    THEN final_vec
    ELSE LET row == b.bigsi[BitIndex(b, v, i) + 1]
         IN IF IsEmpty(row)
            THEN row
            ELSE GetBvLoop(b, v, i + 1, BitAnd(final_vec, row))

GetBv(b, v) == GetBvLoop(b, v, 0, NewFill(TRUE, b.accessions))

\* ---- Bigsi::merge ----
\* a variant of the parameter check that compares the hash counts only
MergeMismatchHashesOnly(a, b) == a.num_hashes # b.num_hashes

MergeMismatch(a, b) ==
    (a.num_hashes # b.num_hashes) \/ (Len(a.bigsi) # Len(b.bigsi))

\* a variant of the row merge without the zero-length cases
MergeRowPlain(x, y, n1, n2) == BitConcat(x, y)

\* a variant of the row merge that pads an empty left row on the wrong side
MergeRowPadAfter(x, y, n1, n2) ==
    IF (Len(x) = 0) /\ (Len(y) > 0)
    THEN BitConcat(y, NewFill(FALSE, n1))
    ELSE IF (Len(x) > 0) /\ (Len(y) = 0)
         THEN BitConcat(x, NewFill(FALSE, n2))
         ELSE BitConcat(x, y)

MergeRow(x, y, n1, n2) ==
    IF (Len(x) = 0) /\ (Len(y) > 0)
    THEN BitConcat(NewFill(FALSE, n1), y)
    ELSE IF (Len(x) > 0) /\ (Len(y) = 0)
         THEN BitConcat(x, NewFill(FALSE, n2))
         ELSE BitConcat(x, y)

\* a variant of merge that leaves accessions as it was
MergeIndexNoCount(a, b) ==
    [a EXCEPT
       !.bigsi = [k \in 1..Min(Len(a.bigsi), Len(b.bigsi)) |->
                     MergeRow(a.bigsi[k], b.bigsi[k], a.accessions, b.accessions)]]

MergeIndex(a, b) ==
    [a EXCEPT
       !.bigsi = [k \in 1..Min(Len(a.bigsi), Len(b.bigsi)) |->
                     MergeRow(a.bigsi[k], b.bigsi[k], a.accessions, b.accessions)],
       !.accessions = a.accessions + b.accessions]

\* ---- Bigsi::save: bincode layout as a sequence of 64-bit words ----
RECURSIVE BlockWord(_, _, _)
BlockWord(row, j, k) ==
    IF (k >= BlockBits) \/ (j * BlockBits + k >= Len(row))
    THEN 0
    ELSE (IF row[j * BlockBits + k + 1] THEN 2 ^ k ELSE 0) + BlockWord(row, j, k + 1)

NumBlocks(n) == (n + BlockBits - 1) \div BlockBits

EncodeRow(row) ==
    <<NumBlocks(Len(row))>>
    \o [j \in 1..NumBlocks(Len(row)) |-> BlockWord(row, j - 1, 0)]
    \o <<Len(row)>>

RECURSIVE EncodeRows(_, _)
EncodeRows(rows, k) ==
    IF k > Len(rows) THEN << >> ELSE EncodeRow(rows[k]) \o EncodeRows(rows, k + 1)

\* a variant of the encoder that writes the two counters in the other order
SerializeSwapped(b) ==
    <<Len(b.bigsi)>> \o EncodeRows(b.bigsi, 1) \o <<b.accessions, b.num_hashes>>

Serialize(b) ==
    <<Len(b.bigsi)>> \o EncodeRows(b.bigsi, 1) \o <<b.num_hashes, b.accessions>>

\* ---- Bigsi::read: decoding of the same layout ----
DecodeRow(words, pos) ==
    LET nb == words[pos]
        len == words[pos + nb + 1]
    IN [row |-> [k \in 1..len |->
                   ((words[pos + 1 + ((k - 1) \div BlockBits)]
                       \div (2 ^ ((k - 1) % BlockBits))) % 2) = 1],
        next |-> pos + nb + 2]

RECURSIVE DecodeRows(_, _, _, _)
DecodeRows(words, pos, count, rows) ==
    IF count = 0
    THEN [rows |-> rows, next |-> pos]
    ELSE LET d == DecodeRow(words, pos)
         IN DecodeRows(words, d.next, count - 1, Append(rows, d.row))

Deserialize(words) ==
    LET d == DecodeRows(words, 2, words[1], << >>)
    IN [bigsi |-> d.rows,
        num_hashes |-> words[d.next],
        accessions |-> words[d.next + 1]]

NoFile == << >>

\* ---- state after construction ----
\* hash64[<<v, i>>] is never looked at when seed i is beyond both hash counts,
\* and its value makes no difference when both indexes have one row
HashUnread(i, ma, mb, ea, eb) == (i >= ea /\ i >= eb) \/ (ma = 1 /\ mb = 1)

\* hash64 is any function of value and seed; the entries never read are 0
Init ==
    /\ \E ma, mb \in 1..MaxM, na, nb \in 1..MaxN, ea, eb \in 1..MaxEta :
          /\ idx = [s \in Names |-> IF s = "A" THEN New(ma, na, ea) ELSE New(mb, nb, eb)]
          /\ built = [s \in Names |-> IF s = "A" THEN [m |-> ma, n |-> na]
                                                 ELSE [m |-> mb, n |-> nb]]
          /\ hash64 \in [Values \X Seeds -> 0..(HashSpace - 1)]
          /\ \A v \in Values, i \in Seeds :
                HashUnread(i, ma, mb, ea, eb) => hash64[<<v, i>>] = 0
    /\ file = NoFile
    /\ saved = New(1, 1, 1)
    /\ panic = "none"

\* ---- operations; a panic ends the run ----
Insert(s, a, v) ==
    /\ panic = "none"
    /\ a < idx[s].accessions
    /\ LET r == InsertLoop(idx[s], a, v, 0)
       IN /\ idx' = [idx EXCEPT ![s] = r.b]
          /\ panic' = IF r.ok THEN "none" ELSE "insert"
    /\ UNCHANGED <<file, hash64, saved, built>>

Slim(s) ==
    /\ panic = "none"
    /\ idx' = [idx EXCEPT ![s] = SlimIndex(@)]
    /\ UNCHANGED <<file, hash64, panic, saved, built>>

Merge(s) ==
    /\ panic = "none"
    /\ IF MergeMismatch(idx[s], idx[Other(s)])
       THEN /\ panic' = "merge"
            /\ UNCHANGED idx
       ELSE /\ idx[s].accessions + idx[Other(s)].accessions <= MaxAcc
            /\ idx' = [idx EXCEPT ![s] = MergeIndex(@, idx[Other(s)])]
            /\ UNCHANGED panic
    /\ UNCHANGED <<file, hash64, saved, built>>

Save(s) ==
    /\ panic = "none"
    /\ file' = Serialize(idx[s])
    /\ saved' = idx[s]
    /\ UNCHANGED <<idx, hash64, panic, built>>

Read(s) ==
    /\ panic = "none"
    /\ IF file = NoFile
       THEN /\ panic' = "read"
            /\ UNCHANGED idx
       ELSE /\ idx' = [idx EXCEPT ![s] = Deserialize(file)]
            /\ UNCHANGED panic
    /\ UNCHANGED <<file, hash64, saved, built>>

\* Spec: indexes driven by insert, slim and merge
Next ==
    \/ \E s \in Names, a \in 0..(MaxAcc - 1), v \in Values : Insert(s, a, v)
    \/ \E s \in Names : Slim(s)
    \/ \E s \in Names : Merge(s)

Spec == Init /\ [][Next]_vars

\* SpecIO: the same with save and read. A is the index that is saved (the two
\* names are interchangeable) and either index reads the file; one value is
\* inserted, the hashes of the other values are never read
IOValues == {1}

InitIO == Init /\ \A v \in Values \ IOValues, i \in Seeds : hash64[<<v, i>>] = 0

NextIO ==
    \/ \E s \in Names, a \in 0..(MaxAcc - 1), v \in IOValues : Insert(s, a, v)
    \/ \E s \in Names : Slim(s)
    \/ \E s \in Names : Merge(s)
    \/ Save("A")
    \/ \E s \in Names : Read(s)

SpecIO == InitIO /\ [][NextIO]_vars

\* ---- vocabulary of the properties ----
SetOf(seq) == {seq[k] : k \in 1..Len(seq)}

Hits(b, v) == Get(b, v).hits

Ascending(seq) == \A k \in 1..(Len(seq) - 1) : seq[k] < seq[k + 1]

\* bit a of a row, a zero-width row counting as all-false
BitOf(row, a) == (a < Len(row)) /\ row[a + 1]

RowAt(b, v, i) == b.bigsi[BitIndex(b, v, i) + 1]

HasSentinel(b) == \E k \in 1..Len(b.bigsi) : Len(b.bigsi[k]) = 0

HasTrueBit(b) ==
    \E k \in 1..Len(b.bigsi) : \E a \in 0..(b.accessions - 1) : BitOf(b.bigsi[k], a)

\* the index has been the receiver of a merge (Spec has no read)
Merged(s) == idx[s].accessions > built[s].n

\* C1: no false negatives. Once insert(a, v) has been performed on an index,
\* every later get(v) on it contains a. Stated step by step: in every new
\* state of an index, get(v) contains a for each insert(a, v) that has just
\* completed or that completes without changing anything (its bits are all
\* there), and no insert, slim or merge takes an accession out of any get(v),
\* the receiver of a merge keeping its indices.
C1_NoFalseNegatives ==
    [][panic' = "none" =>
         \A s \in Names :
            (idx'[s] # idx[s]) =>
               \A v \in Values :
                  LET before == Get(idx[s], v)
                      after == Get(idx'[s], v)
                      done == [b |-> idx'[s], ok |-> TRUE]
                  IN /\ ~after.panic
                     /\ SetOf(before.hits) \subseteq SetOf(after.hits)
                     /\ \A a \in 0..(idx'[s].accessions - 1) :
                           (\/ (a < idx[s].accessions /\ InsertLoop(idx[s], a, v, 0) = done)
                            \/ InsertLoop(idx'[s], a, v, 0) = done)
                              => a \in SetOf(after.hits)]_vars

\* an inserted value is still found after a slim and a merge into the index
C1_Witness ==
    \E s \in Names :
       /\ Merged(s)
       /\ HasSentinel(idx[s])
       /\ \E v \in Values : Hits(idx[s], v) # << >>

\* C2: get(v) after slim() is the same list as get(v) immediately before it.
C2_SlimKeepsGet ==
    [][\A s \in Names : Slim(s) =>
          \A v \in Values : Get(idx'[s], v) = Get(idx[s], v)]_vars

\* slim has made a zero-width row in an index that answers one value with an
\* accession and another with none
C2_Witness ==
    \E s \in Names :
       /\ ~Merged(s)
       /\ HasSentinel(idx[s])
       /\ \E v \in Values : Hits(idx[s], v) # << >>
       /\ \E v \in Values : Hits(idx[s], v) = << >>

\* C3: get_bv(v) after slim() is the same bit vector, width and bits, as
\* get_bv(v) immediately before it.
C3_SlimKeepsGetBv ==
    [][\A s \in Names : Slim(s) =>
          \A v \in Values : GetBv(idx'[s], v) = GetBv(idx[s], v)]_vars

\* C4 as claimed: after A.merge(B) every row of A has width A.accessions(before)
\* + B.accessions, also where A's row, B's row or both were zero-width.
C4_AllRowsFullWidth ==
    [][\A s \in Names : (Merge(s) /\ panic' = "none") =>
          \A k \in 1..Len(idx'[s].bigsi) :
             Len(idx'[s].bigsi[k]) = idx[s].accessions + idx[Other(s)].accessions]_vars

\* C4 as amended: after A.merge(B) a row of A has width A.accessions(before) +
\* B.accessions when A's row or B's row had bits before the merge, and stays
\* zero-width when both rows were zero-width.
C4_MergeRowWidth ==
    [][\A s \in Names : (Merge(s) /\ panic' = "none") =>
          \A k \in 1..Len(idx'[s].bigsi) :
             Len(idx'[s].bigsi[k]) =
                IF Len(idx[s].bigsi[k]) = 0 /\ Len(idx[Other(s)].bigsi[k]) = 0
                THEN 0
                ELSE idx[s].accessions + idx[Other(s)].accessions]_vars

\* a merged index with a zero-width row and with a full-width row where the
\* other index has a zero-width one
C4_Witness ==
    \E s \in Names :
       /\ Merged(s)
       /\ \E k \in 1..Len(idx[s].bigsi) : Len(idx[s].bigsi[k]) = 0
       /\ \E k \in 1..Len(idx[s].bigsi) :
             /\ Len(idx[s].bigsi[k]) = idx[s].accessions
             /\ Len(idx[Other(s)].bigsi[k]) = 0

\* C5: after A.merge(B), get(v) is A's get(v) before the merge followed by
\* B's get(v) shifted by A's accessions before the merge, and accessions is
\* the sum of the two.
C5_MergeKeepsAnswers ==
    [][\A s \in Names : (Merge(s) /\ panic' = "none") =>
          /\ idx'[s].accessions = idx[s].accessions + idx[Other(s)].accessions
          /\ \A v \in Values :
                LET own == Hits(idx[s], v)
                    oth == Hits(idx[Other(s)], v)
                IN /\ ~Get(idx'[s], v).panic
                   /\ Hits(idx'[s], v) =
                         own \o [j \in 1..Len(oth) |-> idx[s].accessions + oth[j]]]_vars

\* a merged index answering a value with an accession of its own and one
\* that came from the other index
C5_Witness ==
    \E s \in Names, v \in Values :
       /\ Merged(s)
       /\ \E a \in SetOf(Hits(idx[s], v)) : a < built[s].n
       /\ \E a \in SetOf(Hits(idx[s], v)) : a >= built[s].n
       /\ Len(Hits(idx[s], v)) < idx[s].accessions

\* C6: a merge of indexes with different num_hashes or different row counts
\* fails and leaves self as it was; other is unchanged by every merge.
C6_MergeMismatchFatal ==
    [][\A s \in Names : Merge(s) =>
          /\ idx'[Other(s)] = idx[Other(s)]
          /\ IF \/ idx[s].num_hashes # idx[Other(s)].num_hashes
                \/ Len(idx[s].bigsi) # Len(idx[Other(s)].bigsi)
             THEN panic' = "merge" /\ idx'[s] = idx[s]
             ELSE panic' = "none"]_vars

\* a merge has failed between indexes of different row counts, one of them
\* holding bits and a zero-width row
C6_Witness ==
    /\ panic = "merge"
    /\ Len(idx["A"].bigsi) # Len(idx["B"].bigsi)
    /\ \E s \in Names : HasTrueBit(idx[s]) /\ HasSentinel(idx[s])

\* C7: after I.save(f) and J.read(f), J equals I as saved: same rows (count,
\* widths, bits), same num_hashes and accessions, so the same get(v).
C7_SaveReadRoundTrip ==
    [][\A s \in Names : (Read(s) /\ panic' = "none") =>
          /\ idx'[s] = saved
          /\ \A v \in Values : Get(idx'[s], v) = Get(saved, v)]_vars

\* both indexes hold the saved one, a merged index with a zero-width row and
\* a row with a bit set
C7_Witness ==
    /\ file # NoFile
    /\ \A s \in Names : idx[s] = saved
    /\ saved.accessions > MaxN
    /\ HasSentinel(saved) /\ HasTrueBit(saved)

RowWidthsOk(b) ==
    \A k \in 1..Len(b.bigsi) : Len(b.bigsi[k]) = 0 \/ Len(b.bigsi[k]) = b.accessions

\* C8 as claimed: the number of rows always equals the m given at construction
\* and every row is zero-width or has width accessions.
C8_RowCountIsBuiltM ==
    \A s \in Names : Len(idx[s].bigsi) = built[s].m /\ RowWidthsOk(idx[s])

\* C8 as amended: insert, slim and merge never change the number of rows; only
\* a read does, and it sets it to the row count of the saved index; in every
\* state every row is zero-width or has width accessions.
C8_RowStructure ==
    [][\A s \in Names :
          /\ (Len(idx'[s].bigsi) # Len(idx[s].bigsi)) =>
                (Read(s) /\ Len(idx'[s].bigsi) = Len(saved.bigsi))
          /\ RowWidthsOk(idx[s])
          /\ RowWidthsOk(idx'[s])]_vars

\* a read has given an index another row count than it was built with, and
\* the index has a zero-width row and a row with a bit set
C8_Witness ==
    \E s \in Names :
       /\ Len(idx[s].bigsi) # built[s].m
       /\ HasSentinel(idx[s]) /\ HasTrueBit(idx[s])

\* C9: get(v) is the strictly ascending list of exactly the accessions whose
\* bit is true in all rows selected by v's hashes, a zero-width row counting
\* as all-false; it is empty when one of the rows is zero-width or all-false.
C9_GetIsAndMembership ==
    \A s \in Names, v \in Values :
       LET b == idx[s]
           g == Get(b, v)
       IN /\ ~g.panic
          /\ Ascending(g.hits)
          /\ SetOf(g.hits) =
                {a \in 0..(b.accessions - 1) :
                    \A i \in 0..(b.num_hashes - 1) : BitOf(RowAt(b, v, i), a)}
          /\ (\E i \in 0..(b.num_hashes - 1) :
                 \A a \in 0..(b.accessions - 1) : ~BitOf(RowAt(b, v, i), a))
                => g.hits = << >>

\* one value answered with some but not all accessions, and another value
\* cut short by a zero-width row although one of its rows has a bit set
C9_Witness ==
    \E s \in Names :
       /\ \E v \in Values :
             /\ Hits(idx[s], v) # << >>
             /\ Len(Hits(idx[s], v)) < idx[s].accessions
       /\ \E v \in Values, i, j \in 0..(idx[s].num_hashes - 1) :
             /\ Len(RowAt(idx[s], v, i)) = 0
             /\ \E a \in 0..(idx[s].accessions - 1) : BitOf(RowAt(idx[s], v, j), a)

\* C10: insert(accession, value) with 0 <= accession < accessions completes
\* without failure on every reachable index and leaves bit accession true in
\* each row selected by the value's hashes, also when a row was zero-width.
C10_InsertAlwaysWorks ==
    [][\A s \in Names, a \in 0..(MaxAcc - 1), v \in Values :
          Insert(s, a, v) =>
             /\ panic' = "none"
             /\ \A i \in 0..(idx'[s].num_hashes - 1) : BitOf(RowAt(idx'[s], v, i), a)]_vars

====
